---- MODULE Spec2Model ----
(***************************************************************************)
(* A model of package filter (src/filter.go): the concurrent "inverse"     *)
(* Bloom filter.  The filter is a fixed table of pointers to keys; Observe *)
(* hashes the key with a hasher that belongs to the filter, reduces the    *)
(* digest to a slot index and exchanges a pointer to the key into that     *)
(* slot with a load / compare-and-swap loop.                               *)
(*                                                                         *)
(* Observe is called from several threads.  A call takes one step per      *)
(* access to shared memory: the hasher's state word (read and written by   *)
(* Write, read by Sum32, written by Reset) and the slot (LoadPointer,      *)
(* CompareAndSwapPointer).  The hasher is not synchronised, so these       *)
(* steps of different calls interleave freely.                             *)
(*                                                                         *)
(* 32-bit words are kept as pairs <<hi, lo>> of 16-bit halves, so that the *)
(* FNV multiplication can be computed modulo 2^32.                         *)
(***************************************************************************)
EXTENDS Integers, Sequences, FiniteSets, TLC

\* ------------------------------------------------------------------ bounds

\* Observe calls made on one filter.
MaxCalls == 3

\* Threads calling Observe: the calls that may be in progress at one time.
MaxThreads == 2

\* FairSpec, the specification of the liveness claim, makes the calls
\* 1..MaxFairCalls (all of which may be in progress at one time).
MaxFairCalls == 2

\* Spec constructs the filter with a requested size in 1..MaxReq.
MaxReq == 2

\* SpecNew requests the sizes -2..MaxNewSize, and those around MaxSize.
MaxNewSize == 40

\* SpecHash makes the calls 1..MaxHashCalls, one after the other.
MaxHashCalls == 2

\* SpecAlias makes the calls 1..MaxAliasCalls, one after the other.
MaxAliasCalls == 2

\* The keys passed to Observe: the empty key and "c".  With a table of
\* length 2 the first has index 1 and the second index 0.
Keys == {<< >>, <<99>>}

Calls == 1..MaxCalls

\* The keys of SpecHash.  The digest of <<5, 109, 78>> is 0xFFFFFFDB and that
\* of <<204, 36, 49>> is 0x000000C4: the largest and the smallest first three
\* digest bytes there are.
HashKeys ==
    {<< >>, <<0>>, <<97>>, <<99>>, <<97, 98>>, <<255, 255>>, <<5, 109, 78>>,
     <<204, 36, 49>>}

\* The keys of SpecAlias, whose callers overwrite their buffers: "a" and "c".
AliasKeys == {<<97>>, <<99>>}

\* --------------------------------------------------------------- constants

MaxSize == 1073741824

ErrSizeTooLarge == "Size given too large to round to a power of 2"

ErrSizeTooSmall == "Cannot have a zero or negative size"

\* The nil pointer (pointers to keys are the numbers of the calls, 1, 2, ...).
Nil == 0

\* The nil *InverseBloomFilter.
NilFilter == [nil |-> TRUE]

\* A []byte value: whether it has a backing array, and its bytes.  The zero
\* value `var oldKey []byte` is the nil slice.
NilSlice == [ptr |-> FALSE, data |-> << >>]

Slice(bytes) == [ptr |-> TRUE, data |-> bytes]

\* hash/fnv: offset32 = 2166136261 = 0x811C9DC5, as <<hi, lo>>.
offset32 == <<33052, 40389>>

VARIABLES
    req,            \* the size argument of NewInverseBloomFilter
    filter,         \* the *InverseBloomFilter returned (NilFilter or a record)
    err,            \* the error returned ("pending" before the call)
    sizeRet,        \* what the last Size() call returned (0 before any call)
    pc,             \* pc[c]: where call c stands
    key,            \* key[c]: the bytes of the key when call c was made
    buf,            \* buf[c]: the bytes now in the backing array of that key; a
                    \* slot pointing to c holds &key, which shares this array
    h,              \* h[c]: the local `hash` of fnv's Write
    uindex,         \* uindex[c]: the index computed by Observe
    oldKeyUnsafe,   \* oldKeyUnsafe[c]: the pointer loaded by getAndSet
    oldKey,         \* oldKey[c]: the slice getAndSet returned
    result,         \* result[c]: what Observe returned, once pc[c] = "done"
    log,            \* history: the calls in the order of their exchanges
    before,         \* history: before[c], the calls that had returned when c began
    retries         \* history: retries[c], the failed compare-and-swaps of c

vars == <<req, filter, err, sizeRet, pc, key, buf, h, uindex, oldKeyUnsafe, oldKey,
          result, log, before, retries>>

callVars == <<pc, key, buf, h, uindex, oldKeyUnsafe, oldKey, result, log, before,
              retries>>

\* ------------------------------------------------------------ bit operations

RECURSIVE And(_, _)
And(a, b) ==
    IF a = 0 \/ b = 0 THEN 0
    ELSE (a % 2) * (b % 2) + 2 * And(a \div 2, b \div 2)

RECURSIVE Xor(_, _)
Xor(a, b) ==
    IF a = 0 THEN b
    ELSE IF b = 0 THEN a
    ELSE ((a + b) % 2) + 2 * Xor(a \div 2, b \div 2)

\* ------------------------------------------------------------- hash/fnv 32a

\* hash *= prime32 (16777619 = 2^24 + 403) on a uint32 <<hi, lo>>.
MulPrime32(w) ==
    LET lo == w[2] * 403
    IN  <<(w[1] * 403 + w[2] * 256 + lo \div 65536) % 65536, lo % 65536>>

\* The loop of sum32a.Write: hash ^= c; hash *= prime32, for each byte.
RECURSIVE fnvWrite(_, _)
fnvWrite(w, data) ==
    IF data = << >> THEN w
    ELSE fnvWrite(MulPrime32(<<w[1], Xor(w[2], Head(data))>>), Tail(data))

\* sum32a.Sum(nil): the state word, most significant byte first.
fnvSum(w) == <<w[1] \div 256, w[1] % 256, w[2] \div 256, w[2] % 256>>

\* ------------------------------------------------------------ package bytes

\* bytes.Equal(a, b) is string(a) == string(b): it compares the bytes alone,
\* so the nil slice equals the empty one.
bytesEqual(a, b) == a.data = b.data

\* ------------------------------------------------------------- package math

RECURSIVE Pow2(_)
Pow2(k) == IF k = 0 THEN 1 ELSE 2 * Pow2(k - 1)

\* math.Frexp(x) for an integer x >= 1: the exp with x = frac * 2^exp,
\* 1/2 <= frac < 1.
RECURSIVE FrexpExp(_)
FrexpExp(x) == IF x < 1 THEN 0 ELSE 1 + FrexpExp(x \div 2)

\* The rounding with math.Floor in place of math.Ceil.
FloorLog2(x) == FrexpExp(x) - 1

\* math.Ceil(math.Log2(x)).  Log2 returns exp - 1 exactly when frac = 1/2 (x is
\* a power of two), and else Log(frac) * (1/Ln2) + exp, which for x <= 2^30
\* lies strictly between exp - 1 and exp (by more than 1e-9, far above the
\* error of the float64 computation), so that Ceil gives exp.
CeilLog2(x) ==
    LET exp == FrexpExp(x)
    IN  IF x = Pow2(exp - 1) THEN exp - 1 ELSE exp

\* ------------------------------------------------------------ package filter

\* NewInverseBloomFilter with the first comparison off by one.
NewRejectsMaxSize(size) ==
    IF size >= MaxSize THEN [filter |-> NilFilter, err |-> ErrSizeTooLarge]
    ELSE IF size <= 0 THEN [filter |-> NilFilter, err |-> ErrSizeTooSmall]
    ELSE LET n == Pow2(CeilLog2(size))
         IN  [filter |-> [len |-> n, array |-> << >>, sizeMask |-> n - 1,
                          hash |-> offset32],
              err    |-> "nil"]

NewInverseBloomFilter(size) ==
    IF size > MaxSize THEN [filter |-> NilFilter, err |-> ErrSizeTooLarge]
    ELSE IF size <= 0 THEN [filter |-> NilFilter, err |-> ErrSizeTooSmall]
    ELSE LET n == Pow2(CeilLog2(size))
         IN  [filter |-> [len      |-> n,            \* make([]*[]byte, size)
                          array    |-> << >>,        \* the non-nil slots
                          sizeMask |-> n - 1,
                          hash     |-> offset32],    \* fnv.New32a()
              err    |-> "nil"]

\* arr[index] of a table kept as its non-nil slots.
Slot(arr, index) == IF index \in DOMAIN arr THEN arr[index] ELSE Nil

\* The fold taken over the last three digest bytes in place of the first three.
Sum32LastBytes(w) ==
    LET sum == fnvSum(w)
    IN  (sum[2] * 8 + sum[3]) * 8 + sum[4]

\* The fold shifting by a whole byte in place of three bits.
Sum32Shift8(w) ==
    LET sum == fnvSum(w)
    IN  (sum[1] * 256 + sum[2]) * 256 + sum[3]

\* uintHash.Sum32 on the hasher state w.
Sum32(w) ==
    LET sum == fnvSum(w)
    IN  (sum[1] * 8 + sum[2]) * 8 + sum[3]

\* The index of Observe for a key hashed from the hasher's reset state.
Index(k, mask) == And(Sum32(fnvWrite(offset32, k)), mask)

\* A plain store in place of the compare-and-swap: it always succeeds.
storeSucceeds(cur, old) == TRUE

\* A compare-and-swap that also fails on a slot that is still empty.
casSpurious(cur, old) == cur = old /\ cur # Nil

\* atomic.CompareAndSwapPointer succeeds when the slot still holds `old`.
casSucceeds(cur, old) == cur = old

\* The load hoisted out of the loop: a failed compare-and-swap is tried again
\* with the pointer loaded at first.
retryWithoutLoad == "cas"

\* The `for` loop of getAndSet: after a failed compare-and-swap the call
\* loads the slot again.
afterFailedCas == "load"

\* ----------------------------------------------------------------- actions

\* Call c has returned.
Done(c) == pc[c] = "done"

NewSizes ==
    (-2 .. MaxNewSize) \cup {MaxSize \div 2 - 1, MaxSize \div 2, MaxSize \div 2 + 1,
                              MaxSize - 1, MaxSize, MaxSize + 1, MaxSize + 2}

InitRest ==
    /\ filter = NilFilter
    /\ err = "pending"
    /\ sizeRet = 0
    /\ pc = [c \in Calls |-> "new"]
    /\ key = [c \in Calls |-> << >>]
    /\ buf = [c \in Calls |-> << >>]
    /\ h = [c \in Calls |-> offset32]
    /\ uindex = [c \in Calls |-> 0]
    /\ oldKeyUnsafe = [c \in Calls |-> Nil]
    /\ oldKey = [c \in Calls |-> NilSlice]
    /\ result = [c \in Calls |-> FALSE]
    /\ log = << >>
    /\ before = [c \in Calls |-> {}]
    /\ retries = [c \in Calls |-> 0]

Init == req \in 1..MaxReq /\ InitRest

InitNew == req \in NewSizes /\ InitRest

\* filter, err := NewInverseBloomFilter(req)
New ==
    /\ err = "pending"
    /\ filter' = NewInverseBloomFilter(req).filter
    /\ err' = NewInverseBloomFilter(req).err
    /\ UNCHANGED <<req, sizeRet>>
    /\ UNCHANGED callVars

\* Size() returning the index mask in place of the length.
SizeReturnsMask ==
    /\ filter # NilFilter
    /\ sizeRet' = filter.sizeMask
    /\ UNCHANGED <<req, filter, err>>
    /\ UNCHANGED callVars

\* filter.Size()
Size ==
    /\ filter # NilFilter
    /\ sizeRet' = filter.len
    /\ UNCHANGED <<req, filter, err>>
    /\ UNCHANGED callVars

\* Call c enters Observe(k) and i.hash.Write(key) reads the hasher's state
\* (hash := *s) and runs its loop on the local copy.
Write(c, k) ==
    /\ filter # NilFilter
    /\ pc[c] = "new"
    /\ \A d \in Calls : d < c => pc[d] # "new"    \* calls are numbered as they begin
    /\ Cardinality({d \in Calls : pc[d] \notin {"new", "done"}}) < MaxThreads
    /\ pc' = [pc EXCEPT ![c] = "store"]
    /\ key' = [key EXCEPT ![c] = k]
    /\ buf' = [buf EXCEPT ![c] = k]
    /\ h' = [h EXCEPT ![c] = fnvWrite(filter.hash, k)]
    /\ before' = [before EXCEPT ![c] = {d \in Calls : pc[d] = "done"}]
    /\ UNCHANGED <<req, filter, err, sizeRet, uindex, oldKeyUnsafe, oldKey, result,
                   log, retries>>

\* Write stores its local copy back (*s = hash).
WriteStore(c) ==
    /\ pc[c] = "store"
    /\ filter' = [filter EXCEPT !.hash = h[c]]
    /\ h' = [h EXCEPT ![c] = offset32]             \* the local is dead from here
    /\ pc' = [pc EXCEPT ![c] = "sum"]
    /\ UNCHANGED <<req, err, sizeRet, key, buf, uindex, oldKeyUnsafe, oldKey, result,
                   log, before, retries>>

\* The index taken from Sum32 without the mask.
SumUnmasked(c) ==
    /\ pc[c] = "sum"
    /\ uindex' = [uindex EXCEPT ![c] = Sum32(filter.hash)]
    /\ pc' = [pc EXCEPT ![c] = "reset"]
    /\ UNCHANGED <<req, filter, err, sizeRet, key, buf, h, oldKeyUnsafe, oldKey, result,
                   log, before, retries>>

\* uindex := i.hash.Sum32() & i.sizeMask
Sum(c) ==
    /\ pc[c] = "sum"
    /\ uindex' = [uindex EXCEPT ![c] = And(Sum32(filter.hash), filter.sizeMask)]
    /\ pc' = [pc EXCEPT ![c] = "reset"]
    /\ UNCHANGED <<req, filter, err, sizeRet, key, buf, h, oldKeyUnsafe, oldKey, result,
                   log, before, retries>>

\* i.hash.Reset()
Reset(c) ==
    /\ pc[c] = "reset"
    /\ filter' = [filter EXCEPT !.hash = offset32]
    /\ pc' = [pc EXCEPT ![c] = "load"]
    /\ UNCHANGED <<req, err, sizeRet, key, buf, h, uindex, oldKeyUnsafe, oldKey, result,
                   log, before, retries>>

\* getAndSet: oldKeyUnsafe := atomic.LoadPointer(indexPtr)
LoadPointer(c) ==
    /\ pc[c] = "load"
    /\ oldKeyUnsafe' = [oldKeyUnsafe EXCEPT ![c] = Slot(filter.array, uindex[c])]
    /\ pc' = [pc EXCEPT ![c] = "cas"]
    /\ UNCHANGED <<req, filter, err, sizeRet, key, buf, h, uindex, oldKey, result,
                   log, before, retries>>

\* The exchange writing a table that holds the new pointer alone: the other
\* slots are lost.
SwapLosesOtherSlots(c) ==
    /\ pc[c] = "cas"
    /\ casSucceeds(Slot(filter.array, uindex[c]), oldKeyUnsafe[c])
    /\ filter' = [filter EXCEPT !.array = (uindex[c] :> c)]
    /\ LET old == IF oldKeyUnsafe[c] # Nil THEN Slice(buf[oldKeyUnsafe[c]])
                  ELSE NilSlice
       IN  /\ oldKey' = [oldKey EXCEPT ![c] = old]
           /\ result' = [result EXCEPT ![c] = bytesEqual(old, Slice(key[c]))]
    /\ pc' = [pc EXCEPT ![c] = "done"]
    /\ log' = Append(log, c)
    /\ UNCHANGED <<req, err, sizeRet, key, buf, h, uindex, oldKeyUnsafe, before, retries>>

\* getAndSet: the compare-and-swap succeeds; the slot now points to the key of
\* c, oldKey is what the old pointer points to, and Observe returns
\* bytes.Equal(oldId, key).
CompareAndSwapPointer(c) ==
    /\ pc[c] = "cas"
    /\ casSucceeds(Slot(filter.array, uindex[c]), oldKeyUnsafe[c])
    /\ filter' = [filter EXCEPT !.array = (uindex[c] :> c) @@ filter.array]
    /\ LET old == IF oldKeyUnsafe[c] # Nil THEN Slice(buf[oldKeyUnsafe[c]])
                  ELSE NilSlice
       IN  /\ oldKey' = [oldKey EXCEPT ![c] = old]
           /\ result' = [result EXCEPT ![c] = bytesEqual(old, Slice(key[c]))]
    /\ pc' = [pc EXCEPT ![c] = "done"]
    /\ log' = Append(log, c)
    /\ UNCHANGED <<req, err, sizeRet, key, buf, h, uindex, oldKeyUnsafe, before, retries>>

\* getAndSet: the compare-and-swap fails and the loop goes round.
CompareAndSwapFails(c) ==
    /\ pc[c] = "cas"
    /\ ~casSucceeds(Slot(filter.array, uindex[c]), oldKeyUnsafe[c])
    /\ pc' = [pc EXCEPT ![c] = afterFailedCas]
    /\ retries' = [retries EXCEPT ![c] = IF retries[c] < MaxCalls THEN retries[c] + 1
                                          ELSE MaxCalls]
    /\ UNCHANGED <<req, filter, err, sizeRet, key, buf, h, uindex, oldKeyUnsafe, oldKey,
                   result, log, before>>

\* The steps of call c.
Observe(c) ==
    \/ \E k \in Keys : Write(c, k)
    \/ WriteStore(c)
    \/ Sum(c)
    \/ Reset(c)
    \/ LoadPointer(c)
    \/ CompareAndSwapPointer(c)
    \/ CompareAndSwapFails(c)

Next ==
    \/ New
    \/ Size
    \/ \E c \in Calls : Observe(c)

NextNew ==
    \/ New
    \/ Size

Spec == Init /\ [][Next]_vars

SpecNew == InitNew /\ [][NextNew]_vars

NextFair ==
    \/ New
    \/ Size
    \/ \E c \in 1..MaxFairCalls : Observe(c)

\* Goroutines are scheduled fairly: a call that can take a step takes it.
FairSpec ==
    Init /\ [][NextFair]_vars /\ \A c \in 1..MaxFairCalls : WF_vars(Observe(c))

\* SpecHash: every table length there is (2^0 .. 2^30), the keys of HashKeys,
\* calls made one after the other.
HashSizes == {n \in {Pow2(e) : e \in 0..30} : n <= MaxSize}

InitHash == req \in HashSizes /\ InitRest

\* Call c begins when no call is in progress.
WriteAlone(c, k) ==
    /\ \A d \in Calls : pc[d] \in {"new", "done"}
    /\ Write(c, k)

NextHash ==
    \/ New
    \/ Size
    \/ \E c \in 1..MaxHashCalls :
          \/ \E k \in HashKeys : WriteAlone(c, k)
          \/ WriteStore(c)
          \/ Sum(c)
          \/ Reset(c)
          \/ LoadPointer(c)
          \/ CompareAndSwapPointer(c)

SpecHash == InitHash /\ [][NextHash]_vars

\* The caller of call c, which has returned, writes other bytes into the
\* buffer it had passed as the key (the slice keeps its length).
Overwrite(c, k) ==
    /\ Done(c)
    /\ Len(k) = Len(buf[c])
    /\ k # buf[c]
    /\ buf' = [buf EXCEPT ![c] = k]
    /\ UNCHANGED <<req, filter, err, sizeRet, pc, key, h, uindex, oldKeyUnsafe, oldKey,
                   result, log, before, retries>>

\* SpecAlias: calls made one after the other by callers that reuse their
\* buffers.
NextAlias ==
    \/ New
    \/ \E c \in 1..MaxAliasCalls :
          \/ \E k \in AliasKeys : WriteAlone(c, k)
          \/ WriteStore(c)
          \/ Sum(c)
          \/ Reset(c)
          \/ LoadPointer(c)
          \/ CompareAndSwapPointer(c)
          \/ \E k \in AliasKeys : Overwrite(c, k)

SpecAlias == Init /\ [][NextAlias]_vars

\* ----------------------------------------------------------------- history

\* The place of a finished call in the order of the exchanges.
Pos(c) == CHOOSE n \in 1..Len(log) : log[n] = c

\* Call a had returned when call b began.
Precedes(a, b) == Done(b) /\ a \in before[b]

\* The index the key k maps to in this filter.
IndexOf(k) == Index(k, filter.sizeMask)

\* The exchange before the n-th that went to the same slot (0 if none).
PrevOnSlot(n) ==
    LET same == {m \in 1..(n - 1) : uindex[log[m]] = uindex[log[n]]}
    IN  IF same = {} THEN 0 ELSE CHOOSE m \in same : \A l \in same : l <= m

\* The last call that exchanged into slot i (Nil if none).
LastOnSlot(i) ==
    LET on == {m \in 1..Len(log) : uindex[log[m]] = i}
    IN  IF on = {} THEN Nil ELSE log[CHOOSE m \in on : \A l \in on : l <= m]

\* ------------------------------------------------------------------ claims

\* C1: no false positives.  A call Observe(k) returns true only if another
\* call that was passed a key equal to k exchanged into the filter before it.
\* Stated for every key, the empty one included.
C1_NoFalsePositive ==
    \A c \in Calls :
        (Done(c) /\ result[c]) =>
            \E d \in Calls \ {c} : Done(d) /\ Pos(d) < Pos(c) /\ key[d] = key[c]

\* C2: Observe(key) returns true iff the slot held a key before the exchange
\* and that key equals key; it returns false when the slot was empty, so the
\* first call on a fresh filter returns false for any key.
C2_TrueIffSlotHeldKey ==
    \A c \in Calls :
        Done(c) =>
            /\ result[c] <=> (oldKeyUnsafe[c] # Nil /\ key[oldKeyUnsafe[c]] = key[c])
            /\ (log[1] = c => ~result[c])

\* No exchange between those of a and b went to slot i.
NoExchangeBetween(a, b, i) ==
    \A n \in 1..Len(log) : (Pos(a) < n /\ n < Pos(b)) => uindex[log[n]] # i

\* C3: recall on no collision.  On a fresh filter Observe(k) followed at once
\* by Observe(k), no other call in between, returns false then true; and once
\* Observe(k) has returned, a following Observe(k) returns true if no exchange
\* on the slot of k happened in between.
C3_RecallOnNoCollision ==
    /\ (/\ Precedes(1, 2)
        /\ key[1] = key[2]
        /\ \A d \in Calls : d > 2 => (pc[d] = "new" \/ 2 \in before[d]))
       => (~result[1] /\ result[2])
    /\ \A a, b \in Calls :
          (/\ Precedes(a, b)
           /\ key[a] = key[b]
           /\ NoExchangeBetween(a, b, IndexOf(key[a])))
          => result[b]

\* What holds of the code in place of the first half of C3: the same, for a
\* key that is not empty.
RecallFreshNonEmpty ==
    (/\ Precedes(1, 2)
     /\ key[1] = key[2]
     /\ key[1] # << >>
     /\ \A d \in Calls : d > 2 => (pc[d] = "new" \/ 2 \in before[d]))
    => (~result[1] /\ result[2])

\* C4: eviction.  For distinct keys k1, k2 that map to the same index, the
\* sequential calls Observe(k1), Observe(k2), Observe(k1) on a fresh filter
\* return false, false, false.
C4_Eviction ==
    (/\ Precedes(1, 2)
     /\ Precedes(2, 3)
     /\ key[1] = key[3]
     /\ key[1] # key[2]
     /\ IndexOf(key[1]) = IndexOf(key[2])
     /\ \A d \in Calls : d > 3 => pc[d] = "new")
    => (~result[1] /\ ~result[2] /\ ~result[3])

\* What holds of the code in place of C4: the same, for a first key that is
\* not empty.
EvictionNonEmpty ==
    (/\ Precedes(1, 2)
     /\ Precedes(2, 3)
     /\ key[1] = key[3]
     /\ key[1] # << >>
     /\ key[1] # key[2]
     /\ IndexOf(key[1]) = IndexOf(key[2])
     /\ \A d \in Calls : d > 3 => pc[d] = "new")
    => (~result[1] /\ ~result[2] /\ ~result[3])

\* The eviction itself, with a first key that is not empty: the three calls
\* have returned false, false, false.
EvictionSeen ==
    /\ Precedes(1, 2)
    /\ Precedes(2, 3)
    /\ key[1] = key[3]
    /\ key[1] # key[2]
    /\ key[1] # << >>
    /\ IndexOf(key[1]) = IndexOf(key[2])
    /\ ~result[1] /\ ~result[2] /\ ~result[3]

\* Calls a and b overlapped: neither had returned when the other began.
Overlap(a, b) == a # b /\ Done(a) /\ Done(b) /\ a \notin before[b] /\ b \notin before[a]

\* C7: no lost update.  The exchanges into one slot form one order in which
\* each exchange obtains as prior content the key installed by the exchange
\* just before it (nothing for the first), and the slot holds the key of the
\* last exchange, so also after all calls have finished.
C7_NoLostUpdate ==
    /\ \A n \in 1..Len(log) :
          LET c == log[n]
              m == PrevOnSlot(n)
          IN  /\ oldKeyUnsafe[c] = (IF m = 0 THEN Nil ELSE log[m])
              /\ oldKey[c] = (IF m = 0 THEN NilSlice ELSE Slice(key[log[m]]))
    /\ filter # NilFilter =>
          \A i \in 0..(filter.len - 1) : Slot(filter.array, i) = LastOnSlot(i)
    /\ \A c \in Calls : Done(c) <=> (\E n \in 1..Len(log) : log[n] = c)

\* Two overlapping calls exchanged into one slot, and the one that lost the
\* race tried again and obtained the key of the other.
ContendedExchange ==
    \E a, b \in Calls :
        /\ Overlap(a, b)
        /\ uindex[a] = uindex[b]
        /\ retries[b] > 0
        /\ oldKeyUnsafe[b] = a
        /\ \A c \in Calls : pc[c] \in {"new", "done"}

\* C8: the index a call exchanges into is a function of its key and the table
\* length alone, also when other calls run at the same time.
C8_IndexIsFunctionOfKey ==
    \A c \in Calls : Done(c) => uindex[c] = IndexOf(key[c])

\* What holds of the code in place of C8: a call that overlaps no other call
\* uses the index of its key.
IndexOfKeyWhenAlone ==
    \A c \in Calls :
        (Done(c) /\ \A d \in Calls \ {c} : pc[d] = "new" \/ Precedes(d, c) \/ Precedes(c, d))
        => uindex[c] = IndexOf(key[c])

\* C9: collisions are the sole source of false negatives.  If Observe(k) has
\* returned and a later Observe(k) returns false, then between the two a call
\* with another key that maps to the index of k exchanged into that slot.
C9_FalseNegativeOnlyByCollision ==
    \A a, b \in Calls :
        (Precedes(a, b) /\ key[a] = key[b] /\ ~result[b]) =>
            \E n \in 1..Len(log) :
                /\ Pos(a) < n
                /\ n < Pos(b)
                /\ key[log[n]] # key[a]
                /\ IndexOf(key[log[n]]) = IndexOf(key[a])
                /\ uindex[log[n]] = IndexOf(key[a])

\* C10: every Observe call terminates: under fair scheduling a call that has
\* begun returns a boolean.
C10_ObserveTerminates ==
    \A c \in Calls : (pc[c] # "new") ~> (Done(c) /\ result[c] \in BOOLEAN)

\* A call whose compare-and-swap failed has returned.
RetriedAndReturned == \E c \in Calls : Done(c) /\ retries[c] > 0

\* The place in the order of the exchanges of the one whose pointer call c
\* loaded (0 when it loaded nil).
LoadedPos(c) == IF oldKeyUnsafe[c] = Nil THEN 0 ELSE Pos(oldKeyUnsafe[c])

\* The exchanges of other calls into the slot of c made since c loaded it.
ExchangesSinceLoad(c) ==
    {n \in 1..Len(log) : n > LoadedPos(c) /\ log[n] # c /\ uindex[log[n]] = uindex[c]}

\* The exchanges of other calls into the slot of c made while c was running.
ExchangesDuring(c) ==
    {n \in 1..Len(log) :
        /\ log[n] # c
        /\ uindex[log[n]] = uindex[c]
        /\ log[n] \notin before[c]
        /\ Done(c) => n < Pos(c)}

\* A step in which the compare-and-swap of some call fails: another call
\* exchanged into that slot since the load, and the step changes nothing of
\* the filter or of any call's outcome.
FailedAttempt ==
    \A c \in Calls :
        (pc[c] = "cas" /\ pc'[c] # "done" /\ (pc'[c] # "cas" \/ retries'[c] # retries[c])) =>
            /\ ExchangesSinceLoad(c) # {}
            /\ filter' = filter
            /\ log' = log /\ result' = result /\ oldKey' = oldKey
            /\ key' = key /\ buf' = buf /\ uindex' = uindex

\* A call about to compare-and-swap succeeds unless its own slot was
\* exchanged since its load, and it has retried no more often than other
\* calls exchanged into its slot while it ran.
RetryBound ==
    \A c \in Calls :
        /\ (pc[c] = "cas" /\ ExchangesSinceLoad(c) = {}) =>
               Slot(filter.array, uindex[c]) = oldKeyUnsafe[c]
        /\ retries[c] <= Cardinality(ExchangesDuring(c))

\* C15: lock-free retry.  A compare-and-swap fails only if another call's
\* exchange on the same slot succeeded between this call's load and the
\* compare-and-swap; a call retries at most as often as other calls exchanged
\* into its slot during the call; a failed attempt changes nothing; exchanges
\* on other slots cause no retry.
C15_RetryOnlyOnContention == []RetryBound /\ [][FailedAttempt]_vars

\* A call retried once while one call exchanged into its slot and another
\* into a different slot.
RetriedOnceBesideOtherSlot ==
    \E c, d, e \in Calls :
        /\ Done(c) /\ Done(d) /\ Done(e)
        /\ retries[c] = 1
        /\ d \notin before[c] /\ Pos(d) < Pos(c) /\ uindex[d] = uindex[c]
        /\ e \notin before[c] /\ Pos(e) < Pos(c) /\ uindex[e] # uindex[c]

\* ------------------------------------------------------------ frame claims

\* What a step may change of the filter: the length and the mask never, and
\* of the table only the slot of the call whose exchange the step is, which
\* then points to that call's key.
ObserveFrame ==
    filter # NilFilter =>
        /\ filter'.len = filter.len
        /\ filter'.sizeMask = filter.sizeMask
        /\ IF log' # log
           THEN LET c == log'[Len(log')]
                IN  /\ Slot(filter'.array, uindex[c]) = c
                    /\ buf'[c] = key[c]
                    /\ pc[c] = "cas"
                    /\ \A i \in (DOMAIN filter.array \cup DOMAIN filter'.array) \ {uindex[c]} :
                          Slot(filter'.array, i) = Slot(filter.array, i)
           ELSE filter'.array = filter.array

\* C11: every Observe(key) call, whether it returns true or false, leaves its
\* slot holding key and leaves every other slot, the table length and the
\* index mask as they were.
C11_ObserveFrame == [][ObserveFrame]_vars

\* A call has returned true and its slot holds its key, while the other slot
\* of the table still holds the key another call put there.
ExchangedBesideOtherSlot ==
    \E c, d \in Calls :
        /\ Done(c) /\ Done(d)
        /\ result[c]
        /\ uindex[d] # uindex[c]
        /\ Pos(d) < Pos(c)
        /\ Slot(filter.array, uindex[c]) = c
        /\ Slot(filter.array, uindex[d]) = d

\* ------------------------------------------------------- construction claims

RECURSIVE IsPowerOfTwo(_)
IsPowerOfTwo(n) == n = 1 \/ (n > 1 /\ n % 2 = 0 /\ IsPowerOfTwo(n \div 2))

\* C5: the outcome of the construction is decided by the size alone: size <= 0
\* fails with ErrSizeTooSmall, size > MaxSize with ErrSizeTooLarge, every size
\* in 1..MaxSize succeeds; the two errors differ, and with an error no filter
\* is returned.
C5_ConstructionOutcome ==
    err # "pending" =>
        /\ req <= 0 => (err = ErrSizeTooSmall /\ filter = NilFilter)
        /\ req > MaxSize => (err = ErrSizeTooLarge /\ filter = NilFilter)
        /\ (1 <= req /\ req <= MaxSize) => (err = "nil" /\ filter # NilFilter)
        /\ ErrSizeTooSmall # ErrSizeTooLarge
        /\ ErrSizeTooSmall # "nil" /\ ErrSizeTooLarge # "nil"

\* The largest size was requested and a filter of that length returned.
MaxSizeConstructed == req = MaxSize /\ err = "nil" /\ filter # NilFilter

\* C6: for a valid size, Size() is the smallest power of two >= size: a power
\* of two, >= size, < 2 * size (stated as Size() / 2 < size, which is the same
\* for a power of two and stays within 32 bits), equal to size when size is a
\* power of two; a size of 10 gives 16.
C6_SizeIsNextPowerOfTwo ==
    sizeRet # 0 =>
        /\ IsPowerOfTwo(sizeRet)
        /\ sizeRet >= req
        /\ sizeRet \div 2 < req
        /\ IsPowerOfTwo(req) => sizeRet = req
        /\ req = 10 => sizeRet = 16

\* Size() was called on a filter whose requested size of 10 was rounded up.
SizeRoundedUp == req = 10 /\ sizeRet = 16

\* The table of the filter is as NewInverseBloomFilter made it, and Size()
\* has returned its length.
TableFixed ==
    filter # NilFilter =>
        /\ filter.len = NewInverseBloomFilter(req).filter.len
        /\ IsPowerOfTwo(filter.len)
        /\ 1 <= filter.len /\ filter.len <= MaxSize
        /\ filter.sizeMask = filter.len - 1
        /\ sizeRet # 0 => sizeRet = filter.len

\* A step in which Size() returns changes nothing else.
SizeChangesNothing ==
    sizeRet' # sizeRet => (filter' = filter /\ req' = req /\ err' = err /\ callVars' = callVars)

\* C12: the table length is fixed at construction: in every state reached by
\* Observe and Size calls, Size() returns the N of the construction, N is a
\* power of two with 1 <= N <= 2^30, the index mask is N - 1, and Size changes
\* no state.
C12_LengthFixed == []TableFixed /\ [][SizeChangesNothing]_vars

\* Size() has returned 2^30 after an Observe call exchanged into the table.
SizeAfterExchange == sizeRet = MaxSize /\ \E c \in Calls : Done(c)

\* ------------------------------------------------------------ buffer claims

\* The bytes every non-empty slot points to are those its key had when the
\* Observe call that stored it was made.
SlotKeepsKey ==
    filter # NilFilter =>
        \A i \in DOMAIN filter.array : buf[filter.array[i]] = key[filter.array[i]]

\* A call returns true only if its key was the key of an earlier call.
TrueOnlyIfObserved ==
    \A c \in Calls :
        (Done(c) /\ result[c]) =>
            \E d \in Calls \ {c} : Done(d) /\ Pos(d) < Pos(c) /\ key[d] = key[c]

\* C16: a slot owns its key.  The bytes a slot holds are those the key had
\* at the Observe call that stored it, also after the caller has overwritten
\* the buffer it passed, and a later Observe with the new content of the
\* buffer returns true only if that content was itself observed before.
C16_SlotOwnsKey == SlotKeepsKey /\ TrueOnlyIfObserved

\* ----------------------------------------------------------- index claims

\* Call c has computed its index.
HasIndex(c) == pc[c] \in {"reset", "load", "cas", "done"}

\* The largest value of the fold of three bytes.
FoldMax == 255 * 64 + 255 * 8 + 255

\* Values of the fourth digest byte: none, all and each single bit.
FourthBytes == {0, 255} \cup {Pow2(e) : e \in 0..7}

C14_IndexInRange ==
    /\ filter # NilFilter => \A i \in DOMAIN filter.array : 0 <= i /\ i < filter.len
    /\ \A c \in Calls :
          /\ HasIndex(c) => (0 <= uindex[c] /\ uindex[c] < filter.len)
          /\ pc[c] \notin {"new", "done"} => ENABLED Observe(c)

\* Observe of the empty key went to the last slot of a table of several slots.
EmptyKeyInLastSlot ==
    \E c \in Calls :
        /\ Done(c) /\ key[c] = << >>
        /\ filter.len > 1 /\ uindex[c] = filter.len - 1
        /\ Slot(filter.array, filter.len - 1) = c

\* C17: the fold of the three digest bytes never exceeds 18615, so in every
\* reachable state only slots 0..18615 can be non-empty; in tables of 32768
\* slots or more the slots above 18615 stay empty.
C17_FoldBounded ==
    /\ FoldMax = 18615
    /\ Sum32(<<65535, 65535>>) = FoldMax
    /\ filter # NilFilter =>
          /\ Sum32(filter.hash) <= FoldMax
          /\ \A i \in DOMAIN filter.array : i <= FoldMax
    /\ \A c \in Calls : HasIndex(c) => uindex[c] <= FoldMax

\* Slot 18615 of a table of 32768 slots or more is non-empty.
TopSlotFilled == filter # NilFilter /\ filter.len >= 32768 /\ Slot(filter.array, FoldMax) # Nil

====
